---- MODULE Spec2Model ----
(***************************************************************************)
(* Model of modules/utils.py: cookie persistence on a JSON file and the    *)
(* page helpers that drive a Playwright page.  Every await of a page call  *)
(* is one step; a page call may succeed, time out or fail otherwise.       *)
(***************************************************************************)
EXTENDS Integers, Sequences, FiniteSets, TLC

VARIABLES
    fs,      \* the cookie files on disk
    saved,   \* per file, the collection of the last completed save_cookies
    cstat,   \* the last cookie call and how it ended
    rows,    \* the page's course list, in page order
    stack,   \* the frames of the running call, innermost first
    call,    \* the running (or last) top-level call and its arguments
    res,     \* how the top-level call ended and what it returned
    ops,     \* the page calls made during the top-level call, in order
    log,     \* the logger calls made during the top-level call, in order
    hour,    \* the local hour optimize_page read, NoHour before it reads one
    allRet   \* the last list get_filtered_class(include_all=True) returned

cvars == <<fs, saved, cstat>>
pvars == <<rows, stack, call, res, ops, log, hour, allRet>>
vars == <<fs, saved, cstat, rows, stack, call, res, ops, log, hour, allRet>>

(***************************************************************************)
(* Python values.  Every value is a record of the same shape: the kind,    *)
(* the text of an atom, the items of a container.  A dict is a sequence    *)
(* of "pair" values in insertion order.                                    *)
(***************************************************************************)
PyVal(k, a, its) == [kind |-> k, atom |-> a, items |-> its]
PyNone == PyVal("none", "", <<>>)
PyStr(s) == PyVal("str", s, <<>>)
PyInt(n) == PyVal("int", n, <<>>)
PyList(its) == PyVal("list", "", its)
PyTuple(its) == PyVal("tuple", "", its)
PyDict(prs) == PyVal("dict", "", prs)
PyPair(k, v) == PyVal("pair", "", <<k, v>>)
PyObject == PyVal("object", "", <<>>)
NoValue == PyVal("absent", "", <<>>)

(***************************************************************************)
(* JSON text is a sequence of lexemes.                                     *)
(***************************************************************************)
Tok(t, v) == [t |-> t, v |-> v]
P(c) == Tok("punct", c)
FailTok == Tok("TypeError", "")

RECURSIVE Concat(_)
Concat(ss) == IF ss = <<>> THEN <<>> ELSE Head(ss) \o Concat(Tail(ss))

\* json.encoder: the separator that precedes item i of a container
Sep(i) == IF i = 1 THEN <<>> ELSE <<P(",")>>

\* json.encoder: a dict key is a str, or an int/float/bool/None coerced to
\* its text; any other key is a TypeError
EncodeKey(k) ==
    IF k.kind \in {"str", "int"} THEN <<Tok("str", k.atom)>> ELSE <<FailTok>>

\* json.encoder._make_iterencode: the chunks json.dump writes for value v, in
\* order; a value with no JSON form raises TypeError at the point it is met
RECURSIVE Encode(_)
Encode(v) ==
    CASE v.kind = "str" -> <<Tok("str", v.atom)>>
      [] v.kind = "int" -> <<Tok("num", v.atom)>>
      [] v.kind = "none" -> <<Tok("lit", "null")>>
      [] v.kind \in {"list", "tuple"} ->
            <<P("[")>>
            \o Concat([i \in 1..Len(v.items) |-> Sep(i) \o Encode(v.items[i])])
            \o <<P("]")>>
      [] v.kind = "dict" ->
            <<P("{")>>
            \o Concat([i \in 1..Len(v.items) |->
                        Sep(i) \o EncodeKey(v.items[i].items[1]) \o <<P(":")>>
                        \o Encode(v.items[i].items[2])])
            \o <<P("}")>>
      [] OTHER -> <<FailTok>>

Serializable(v) == \A i \in 1..Len(Encode(v)) : Encode(v)[i] # FailTok

\* what reaches the file: every chunk yielded before the TypeError
RECURSIVE Written(_)
Written(toks) ==
    IF toks = <<>> \/ Head(toks) = FailTok THEN <<>>
    ELSE <<Head(toks)>> \o Written(Tail(toks))

(***************************************************************************)
(* json.decoder: recursive descent over the lexemes.  A result is          *)
(* [ok, val, next]: next is the index of the first lexeme not consumed.    *)
(***************************************************************************)
Bad == [ok |-> FALSE, val |-> NoValue, next |-> 0]
Good(v, n) == [ok |-> TRUE, val |-> v, next |-> n]
IsP(toks, i, c) == i <= Len(toks) /\ toks[i] = P(c)

\* a scanner that hands every atom back as text
DecodeAtomAllText(tok) ==
    CASE tok.t \in {"str", "num"} -> PyStr(tok.v)
      [] OTHER -> PyNone

\* scanner: the Python value of an atom lexeme
DecodeAtom(tok) ==
    CASE tok.t = "str" -> PyStr(tok.v)
      [] tok.t = "num" -> PyInt(tok.v)
      [] OTHER -> PyNone

RECURSIVE ParseValue(_, _), ParseArray(_, _, _), ParseObject(_, _, _)
ParseValue(toks, i) ==
    IF i > Len(toks) THEN Bad
    ELSE IF toks[i].t \in {"str", "num", "lit"} THEN Good(DecodeAtom(toks[i]), i + 1)
    ELSE IF toks[i] = P("[") THEN
        IF IsP(toks, i + 1, "]") THEN Good(PyList(<<>>), i + 2)
        ELSE ParseArray(toks, i + 1, <<>>)
    ELSE IF toks[i] = P("{") THEN
        IF IsP(toks, i + 1, "}") THEN Good(PyDict(<<>>), i + 2)
        ELSE ParseObject(toks, i + 1, <<>>)
    ELSE Bad

\* JSONArray: value (, value)* ]
ParseArray(toks, i, acc) ==
    LET r == ParseValue(toks, i) IN
    IF ~r.ok THEN Bad
    ELSE IF IsP(toks, r.next, "]") THEN Good(PyList(Append(acc, r.val)), r.next + 1)
    ELSE IF IsP(toks, r.next, ",") THEN ParseArray(toks, r.next + 1, Append(acc, r.val))
    ELSE Bad

\* dict(pairs): a repeated key keeps its first position and its last value
DictSet(acc, k, v) ==
    IF \E j \in 1..Len(acc) : acc[j].items[1] = k
    THEN [j \in 1..Len(acc) |-> IF acc[j].items[1] = k THEN PyPair(k, v) ELSE acc[j]]
    ELSE Append(acc, PyPair(k, v))

\* JSONObject: "key" : value (, "key" : value)* }
ParseObject(toks, i, acc) ==
    IF ~(i <= Len(toks) /\ toks[i].t = "str" /\ IsP(toks, i + 1, ":")) THEN Bad
    ELSE LET r == ParseValue(toks, i + 2)
             d == DictSet(acc, PyStr(toks[i].v), r.val) IN
         IF ~r.ok THEN Bad
         ELSE IF IsP(toks, r.next, "}") THEN Good(PyDict(d), r.next + 1)
         ELSE IF IsP(toks, r.next, ",") THEN ParseObject(toks, r.next + 1, d)
         ELSE Bad

\* json.load: one value and nothing after it, else JSONDecodeError
JsonLoad(toks) ==
    LET r == ParseValue(toks, 1) IN
    IF r.ok /\ r.next = Len(toks) + 1 THEN [ok |-> TRUE, val |-> r.val]
    ELSE [ok |-> FALSE, val |-> NoValue]

(***************************************************************************)
(* Cookie persistence.                                                     *)
(***************************************************************************)
MaxCookies == 1

Files == {"cookies.json", "backup.json"}

\* cookie records as callers can pass them: a name/value dict, a dict keyed
\* by a number, a tuple record, a bare string, an object json cannot encode
Elems == { PyDict(<<PyPair(PyStr("name"), PyInt("1"))>>),
           PyDict(<<PyPair(PyInt("1"), PyStr("a"))>>),
           PyTuple(<<PyStr("a")>>),
           PyStr("a"),
           PyObject }

SeqsUpTo(S, n) == UNION {[1..k -> S] : k \in 0..n}

CookieInputs == {PyList(s) : s \in SeqsUpTo(Elems, MaxCookies)}

NoFile == [exists |-> FALSE, text |-> <<>>]
File(toks) == [exists |-> TRUE, text |-> toks]

CStat(op, f, out, e, r) == [op |-> op, file |-> f, outcome |-> out, exc |-> e, ret |-> r]

\* what a file can hold before the first call: nothing, an empty file, text
\* with a trailing comma, a value followed by more text
FoundFiles == { NoFile,
                File(<<>>),
                File(<<P("["), Tok("str", "a"), P(","), P("]")>>),
                File(<<P("["), P("]"), P("["), P("]")>>) }

InitCookies ==
    /\ fs \in [Files -> FoundFiles]
    /\ saved = [f \in Files |-> NoValue]
    /\ cstat = CStat("none", "", "none", "", NoValue)

\* open(filename, 'w') truncates, json.dump streams its chunks into the file
save_cookies(cookies, filename) ==
    LET toks == Encode(cookies) IN
    /\ fs' = [fs EXCEPT ![filename] = File(Written(toks))]
    /\ IF Serializable(cookies)
       THEN /\ saved' = [saved EXCEPT ![filename] = cookies]
            /\ cstat' = CStat("save", filename, "returned", "", PyNone)
       ELSE /\ saved' = [saved EXCEPT ![filename] = NoValue]
            /\ cstat' = CStat("save", filename, "raised", "TypeError", NoValue)

\* a handler that lets a malformed file through
LoadCaughtOnlyMissing(e) == e \in {"FileNotFoundError"}

\* except (FileNotFoundError, json.JSONDecodeError)
LoadCaught(e) == e \in {"FileNotFoundError", "JSONDecodeError"}

\* the exception open() or json.load() raises on the file, "" for none
LoadExc(file) ==
    IF ~file.exists THEN "FileNotFoundError"
    ELSE IF ~JsonLoad(file.text).ok THEN "JSONDecodeError"
    ELSE ""

load_cookies(filename) ==
    LET e == LoadExc(fs[filename]) IN
    /\ cstat' = IF e = "" THEN CStat("load", filename, "returned", "", JsonLoad(fs[filename].text).val)
                ELSE IF LoadCaught(e) THEN CStat("load", filename, "returned", e, PyNone)
                ELSE CStat("load", filename, "raised", e, NoValue)
    /\ UNCHANGED <<fs, saved>>

SaveCookies == (\E c \in CookieInputs, f \in Files : save_cookies(c, f)) /\ UNCHANGED pvars
LoadCookies == (\E f \in Files : load_cookies(f)) /\ UNCHANGED pvars

(***************************************************************************)
(* The page helpers.  A frame is one activation of a function; its pc is   *)
(* the await it stands at (for a caller: where it resumes).                *)
(***************************************************************************)
MaxRows == 2

Hours == 0..23
NoHour == -1

\* what a page call can do: succeed, raise playwright's TimeoutError, or
\* raise another playwright Error (closed page, bad selector, script error)
Outcomes == {"ok", "TimeoutError", "Error"}

\* a course row: the number of .icon-finish and of .time_icofinish elements
\* in it and the text of its .progress-num element
RowStates == [icon : {0, 1}, progress : {"100%", "99%"}, timeIco : {0, 1}]

PopJs == "config.pop_js"
MoveJs == "window.moveTo(-3200, -3200);"
ClickJs == "el=>el.click()"
RemoveJs == "el=>el.remove()"
UnknownLesson == "unknown-lesson placeholder"
Attrs == {"paused"}

Ret(k, s, l) == [kind |-> k, s |-> s, list |-> l]
RetNone == Ret("none", "", <<>>)
RetPage == Ret("page", "", <<>>)
RetStr(s) == Ret("str", s, <<>>)
RetList(l) == Ret("list", "", l)
RetExc(e) == Ret("exception", e, <<>>)

\* what the page can hand back: the title attribute (None when the element
\* has none), the value of a video property
Titles == {RetStr("lesson title"), RetNone}
AttrValues == {RetStr("true"), RetStr("false")}

Frame(fn, pc, sel, js, nv, hk, all) ==
    [fn |-> fn, pc |-> pc, sel |-> sel, js |-> js, nv |-> nv, hk |-> hk,
     all |-> all, i |-> 0, acc |-> <<>>]
CallRec(fn, sel, js, nv, hk, all) ==
    [fn |-> fn, sel |-> sel, js |-> js, nv |-> nv, hk |-> hk, all |-> all]
PageOp(op, sel, js, o, v) == [op |-> op, sel |-> sel, js |-> js, res |-> o, val |-> v]

Running == [outcome |-> "running", ret |-> RetNone]
Returned(r) == [outcome |-> "returned", ret |-> r]
Raised(e) == [outcome |-> "raised", ret |-> RetExc(e)]
NoAllRet == [valid |-> FALSE, nv |-> FALSE, hk |-> FALSE, list |-> <<>>]

top == Head(stack)
At(fn, pc) == stack # <<>> /\ top.fn = fn /\ top.pc = pc

\* a top-level call begins: its frames, fresh traces; h is the local hour
\* the clock shows when the call reads it, NoHour for a call that never does
StartAt(frames, c, h) ==
    /\ stack = <<>>
    /\ stack' = frames
    /\ call' = c
    /\ res' = IF frames = <<>> THEN Returned(RetNone) ELSE Running
    /\ ops' = <<>>
    /\ log' = <<>>
    /\ hour' = h

Start(frames, c) == StartAt(frames, c, NoHour)

\* the innermost frame returns r; the call ends when it was the last frame
Finish(r) ==
    /\ stack' = Tail(stack)
    /\ res' = IF Tail(stack) = <<>> THEN Returned(r) ELSE res

\* an exception no handler of the frame catches leaves the top-level function
Propagate(e) ==
    /\ stack' = <<>>
    /\ res' = Raised(e)

\* lines 101-103: an exception that leaves a function optimize_page called
\* lands in optimize_page's handler, which logs it and returns; with no
\* caller it leaves the top-level function
Escape(e) ==
    IF Tail(stack) # <<>>
    THEN /\ log' = log \o <<"write_log", "write_log">>
         /\ stack' = <<>>
         /\ res' = Returned(RetNone)
    ELSE /\ UNCHANGED log
         /\ Propagate(e)

Goto(pc) ==
    /\ stack' = <<[top EXCEPT !.pc = pc]>> \o Tail(stack)
    /\ UNCHANGED res

Did(op, sel, js, o, v) == ops' = Append(ops, PageOp(op, sel, js, o, v))
Logged(entries) == log' = log \o entries

InitPage(pages) ==
    /\ rows \in pages
    /\ stack = <<>>
    /\ call = CallRec("none", "", "", FALSE, FALSE, FALSE)
    /\ res = [outcome |-> "none", ret |-> RetNone]
    /\ ops = <<>>
    /\ log = <<>>
    /\ hour = NoHour
    /\ allRet = NoAllRet

(* display_window *)
Call_display_window ==
    /\ Start(<<Frame("display_window", "bring", "", "", FALSE, FALSE, FALSE)>>,
             CallRec("display_window", "", "", FALSE, FALSE, FALSE))
    /\ UNCHANGED <<cvars, rows, allRet>>

display_window ==
    /\ At("display_window", "bring")
    /\ \E o \in Outcomes :
        /\ Did("bring_to_front", "", "", o, RetNone)
        /\ Logged(IF o = "ok" THEN <<"info">> ELSE <<"warn">>)
    /\ Finish(RetNone)
    /\ UNCHANGED <<cvars, rows, call, hour, allRet>>

(* hide_window *)
Call_hide_window ==
    /\ Start(<<Frame("hide_window", "move", "", MoveJs, FALSE, FALSE, FALSE)>>,
             CallRec("hide_window", "", MoveJs, FALSE, FALSE, FALSE))
    /\ UNCHANGED <<cvars, rows, allRet>>

hide_window ==
    /\ At("hide_window", "move")
    /\ \E browser \in BOOLEAN :
        IF browser
        THEN \E o \in Outcomes :
                /\ Did("evaluate", "", top.js, o, RetNone)
                /\ Logged(IF o = "ok" THEN <<"info">> ELSE <<"warn">>)
        ELSE UNCHANGED <<ops, log>>
    /\ Finish(RetNone)
    /\ UNCHANGED <<cvars, rows, call, hour, allRet>>

(* get_browser_window *)
Call_get_browser_window ==
    /\ Start(<<Frame("get_browser_window", "bring", "", "", FALSE, FALSE, FALSE)>>,
             CallRec("get_browser_window", "", "", FALSE, FALSE, FALSE))
    /\ UNCHANGED <<cvars, rows, allRet>>

get_browser_window ==
    /\ At("get_browser_window", "bring")
    /\ \E o \in Outcomes :
        /\ Did("bring_to_front", "", "", o, RetNone)
        /\ Finish(IF o = "ok" THEN RetPage ELSE RetNone)
    /\ UNCHANGED <<cvars, rows, call, log, hour, allRet>>

(* evaluate_js *)
\* line 69: wait_selector and not is_hike_class
JsWaits(sel, hk) == sel # "" /\ ~hk

\* a variant that runs the script in hike-class mode too
JsRunsAlways(hk) == TRUE

\* line 71: not is_hike_class
JsRuns(hk) == ~hk

\* the frames a call of evaluate_js puts on the stack ("" stands for a
\* wait_selector of None or ""): none when it has
\* nothing to await
Enter_evaluate_js(sel, js, hk) ==
    IF JsWaits(sel, hk) THEN <<Frame("evaluate_js", "wait", sel, js, FALSE, hk, FALSE)>>
    ELSE IF JsRuns(hk) THEN <<Frame("evaluate_js", "eval", sel, js, FALSE, hk, FALSE)>>
    ELSE <<>>

Call_evaluate_js ==
    /\ \E sel \in {"", ".studytime-div"}, hk \in BOOLEAN :
        Start(Enter_evaluate_js(sel, PopJs, hk),
              CallRec("evaluate_js", sel, PopJs, FALSE, hk, FALSE))
    /\ UNCHANGED <<cvars, rows, allRet>>

\* a variant that runs the script whatever the wait did
JsAfterWaitAlways(o) == TRUE

\* lines 70-72: the script follows a wait that raised nothing
JsAfterWait(o) == o = "ok"

\* a handler that catches the timeout alone
JsCaughtTimeoutOnly(e) == e = "TimeoutError"

\* lines 73, 84: except Exception
JsCaught(e) == TRUE

\* lines 73-75, 84-86: the handler logs the error and the stack trace, and
\* the function returns
JsFailed(e) ==
    IF JsCaught(e)
    THEN /\ Logged(<<"write_log", "write_log">>)
         /\ Finish(RetNone)
    ELSE Escape(e)

evaluate_js_wait ==
    /\ At("evaluate_js", "wait")
    /\ \E o \in Outcomes :
        /\ Did("wait_for_selector", top.sel, "", o, RetNone)
        /\ IF JsAfterWait(o)
           THEN /\ IF JsRuns(top.hk) THEN Goto("eval") ELSE Finish(RetNone)
                /\ UNCHANGED log
           ELSE JsFailed(o)
    /\ UNCHANGED <<cvars, rows, call, hour, allRet>>

evaluate_js_eval ==
    /\ At("evaluate_js", "eval")
    /\ \E o \in Outcomes :
        /\ Did("evaluate", "", top.js, o, RetNone)
        /\ IF o = "ok" THEN UNCHANGED log /\ Finish(RetNone) ELSE JsFailed(o)
    /\ UNCHANGED <<cvars, rows, call, hour, allRet>>

(* evaluate_on_element *)
\* line 81: selector and not is_hike_class
Enter_evaluate_on_element(sel, js, hk) ==
    IF sel # "" /\ ~hk
    THEN <<Frame("evaluate_on_element", "eval", sel, js, FALSE, hk, FALSE)>>
    ELSE <<>>

Call_evaluate_on_element ==
    /\ \E sel \in {"", ".Patternbtn-div"}, hk \in BOOLEAN :
        Start(Enter_evaluate_on_element(sel, ClickJs, hk),
              CallRec("evaluate_on_element", sel, ClickJs, FALSE, hk, FALSE))
    /\ UNCHANGED <<cvars, rows, allRet>>

evaluate_on_element ==
    /\ At("evaluate_on_element", "eval")
    /\ \E o \in Outcomes :
        /\ Did("element.evaluate", top.sel, top.js, o, RetNone)
        /\ IF o = "ok" THEN UNCHANGED log /\ Finish(RetNone) ELSE JsFailed(o)
    /\ UNCHANGED <<cvars, rows, call, hour, allRet>>

(* optimize_page *)
\* a variant whose night window opens an hour late
ClickHourLate(h) == h > 18 \/ h < 7

\* line 95: hour >= 18 or hour < 7
ClickHour(h) == h >= 18 \/ h < 7

\* line 93: not is_new_version and not is_hike_class
ExtraSteps(nv, hk) == ~nv /\ ~hk

\* line 92: the call starts inside evaluate_js(".studytime-div", config.pop_js)
Call_optimize_page ==
    /\ \E nv \in BOOLEAN, hk \in BOOLEAN, h \in Hours :
        StartAt(Enter_evaluate_js(".studytime-div", PopJs, hk)
                  \o <<Frame("optimize_page", "after_pop", "", "", nv, hk, FALSE)>>,
                CallRec("optimize_page", "", PopJs, nv, hk, FALSE), h)
    /\ UNCHANGED <<cvars, rows, allRet>>

\* optimize_page calls evaluate_on_element(sel, js, timeout=1500) and resumes
\* at pc when it returns
OptCall(sel, js, pc) ==
    /\ stack' = Enter_evaluate_on_element(sel, js, FALSE)
                  \o <<[top EXCEPT !.pc = pc]>> \o Tail(stack)
    /\ UNCHANGED res

\* lines 93-97: evaluate_js has returned
optimize_page_after_pop ==
    /\ At("optimize_page", "after_pop")
    /\ IF ExtraSteps(top.nv, top.hk)
       THEN IF ClickHour(hour)
            THEN OptCall(".Patternbtn-div", ClickJs, "tip")
            ELSE OptCall(".exploreTip", RemoveJs, "ai")
       ELSE Finish(RetNone)
    /\ UNCHANGED <<cvars, rows, call, ops, log, hour, allRet>>

optimize_page_tip ==
    /\ At("optimize_page", "tip")
    /\ OptCall(".exploreTip", RemoveJs, "ai")
    /\ UNCHANGED <<cvars, rows, call, ops, log, hour, allRet>>

optimize_page_ai ==
    /\ At("optimize_page", "ai")
    /\ OptCall(".ai-helper-Index2", RemoveJs, "msg")
    /\ UNCHANGED <<cvars, rows, call, ops, log, hour, allRet>>

optimize_page_msg ==
    /\ At("optimize_page", "msg")
    /\ OptCall(".aiMsg.once", RemoveJs, "done")
    /\ UNCHANGED <<cvars, rows, call, ops, log, hour, allRet>>

optimize_page_done ==
    /\ At("optimize_page", "done")
    /\ Logged(<<"info">>)
    /\ Finish(RetNone)
    /\ UNCHANGED <<cvars, rows, call, ops, hour, allRet>>

(* get_video_attr *)
Call_get_video_attr ==
    /\ \E attr \in Attrs :
        Start(<<Frame("get_video_attr", "wait", "video", attr, FALSE, FALSE, FALSE)>>,
              CallRec("get_video_attr", "video", attr, FALSE, FALSE, FALSE))
    /\ UNCHANGED <<cvars, rows, allRet>>

get_video_attr_wait ==
    /\ At("get_video_attr", "wait")
    /\ \E o \in Outcomes :
        /\ Did("wait_for_selector", top.sel, "", o, RetNone)
        /\ IF o = "ok"
           THEN Goto("eval") /\ UNCHANGED log
           ELSE Logged(<<"write_log", "write_log">>) /\ Finish(RetNone)
    /\ UNCHANGED <<cvars, rows, call, hour, allRet>>

get_video_attr_eval ==
    /\ At("get_video_attr", "eval")
    /\ \E o \in Outcomes :
        IF o = "ok"
        THEN \E v \in AttrValues :
                /\ Did("evaluate", "", top.js, o, v)
                /\ UNCHANGED log
                /\ Finish(v)
        ELSE /\ Did("evaluate", "", top.js, o, RetNone)
             /\ Logged(<<"write_log", "write_log">>)
             /\ Finish(RetNone)
    /\ UNCHANGED <<cvars, rows, call, hour, allRet>>

(* get_lesson_name *)
\* a variant that hands back an empty name when a step fails
LessonFallbackEmpty == RetStr("")

\* line 128: return the placeholder string
LessonFallback == RetStr(UnknownLesson)

\* lines 119, 123: the title element of the site variant
TitleSelector(hk) == IF hk THEN "span" ELSE "#lessonOrder"

Call_get_lesson_name ==
    /\ \E hk \in BOOLEAN :
        Start(<<Frame("get_lesson_name", "wait", TitleSelector(hk), "", FALSE, hk, FALSE)>>,
              CallRec("get_lesson_name", "", "", FALSE, hk, FALSE))
    /\ UNCHANGED <<cvars, rows, allRet>>

\* lines 126-128: one handler for every step
LessonFailed ==
    /\ Logged(<<"write_log">>)
    /\ Finish(LessonFallback)

get_lesson_name_wait ==
    /\ At("get_lesson_name", "wait")
    /\ \E o \in Outcomes :
        /\ Did("wait_for_selector", top.sel, "", o, RetNone)
        /\ IF o = "ok" THEN Goto("delay") /\ UNCHANGED log ELSE LessonFailed
    /\ UNCHANGED <<cvars, rows, call, hour, allRet>>

get_lesson_name_delay ==
    /\ At("get_lesson_name", "delay")
    /\ \E o \in Outcomes :
        /\ Did("wait_for_timeout", "", "", o, RetNone)
        /\ IF o = "ok" THEN Goto("attr") /\ UNCHANGED log ELSE LessonFailed
    /\ UNCHANGED <<cvars, rows, call, hour, allRet>>

get_lesson_name_attr ==
    /\ At("get_lesson_name", "attr")
    /\ \E o \in Outcomes :
        IF o = "ok"
        THEN \E t \in Titles :
                /\ Did("get_attribute", top.sel, "title", o, t)
                /\ UNCHANGED log
                /\ Finish(t)
        ELSE /\ Did("get_attribute", top.sel, "title", o, RetNone)
             /\ LessonFailed
    /\ UNCHANGED <<cvars, rows, call, hour, allRet>>

(* get_filtered_class *)
\* lines 136-139: the completion indicator the scan waits for
IndicatorSelector(hk) == IF hk THEN ".icon-finish" ELSE ".time_icofinish"

\* lines 144, 150: the rows of the site variant
RowSelector(hk) == IF hk THEN ".file-item" ELSE ".clearfix.video"

\* a variant that reads the finish icon count in new-version mode too
RowDoneByIconOnly(row, nv, hk) ==
    IF hk THEN row.icon # 0 ELSE row.timeIco # 0

\* lines 148, 156-160: whether a row counts as finished
RowDone(row, nv, hk) ==
    IF hk THEN row.icon # 0
    ELSE IF nv THEN row.progress = "100%"
    ELSE row.timeIco # 0

\* a variant that puts a kept row in front of the list
KeepInFront(acc, each) == <<each>> \o acc

\* line 162: to_learn_class.append(each)
Keep(acc, each) == Append(acc, each)

\* line 140: except TimeoutError
WaitCaught(e) == e = "TimeoutError"

\* Locator.all(): one locator per matching element, in page order
AllLocators == [k \in 1..Len(rows) |-> k]

Call_get_filtered_class ==
    /\ \E nv \in BOOLEAN, hk \in BOOLEAN, all \in BOOLEAN :
        Start(<<Frame("get_filtered_class", IF nv THEN "wait_progress" ELSE "wait_indicator",
                      "", "", nv, hk, all)>>,
              CallRec("get_filtered_class", "", "", nv, hk, all))
    /\ UNCHANGED <<cvars, rows, allRet>>

\* one wait of lines 133-141: on success go on at pc, a caught exception
\* leaves the try block for the scan, any other leaves the function
FilterWait(sel, pc) ==
    \E o \in Outcomes :
        /\ Did("wait_for_selector", sel, "", o, RetNone)
        /\ IF o = "ok" THEN Goto(pc)
           ELSE IF WaitCaught(o) THEN Goto("scan")
           ELSE Propagate(o)

get_filtered_class_wait_progress ==
    /\ At("get_filtered_class", "wait_progress")
    /\ FilterWait(".progress-num", "wait_indicator")
    /\ UNCHANGED <<cvars, rows, call, log, hour, allRet>>

get_filtered_class_wait_indicator ==
    /\ At("get_filtered_class", "wait_indicator")
    /\ FilterWait(IndicatorSelector(top.hk), "scan")
    /\ UNCHANGED <<cvars, rows, call, log, hour, allRet>>

\* lines 144-147, 150-154: collect the rows
get_filtered_class_scan ==
    /\ At("get_filtered_class", "scan")
    /\ \E o \in Outcomes :
        /\ Did("locator.all", RowSelector(top.hk), "", o, RetNone)
        /\ IF o # "ok" THEN Propagate(o) /\ UNCHANGED allRet
           ELSE IF top.all
                THEN /\ Finish(RetList(AllLocators))
                     /\ allRet' = [valid |-> TRUE, nv |-> top.nv, hk |-> top.hk,
                                   list |-> AllLocators]
           ELSE IF AllLocators = <<>> THEN Finish(RetList(<<>>)) /\ UNCHANGED allRet
           ELSE /\ stack' = <<[top EXCEPT !.pc = "each", !.i = 1, !.acc = <<>>]>> \o Tail(stack)
                /\ UNCHANGED <<res, allRet>>
    /\ UNCHANGED <<cvars, rows, call, log, hour>>

\* lines 148, 155-162: one row of the loop
get_filtered_class_each ==
    /\ At("get_filtered_class", "each")
    /\ \E o \in Outcomes :
        LET each == AllLocators[top.i]
            acc == IF RowDone(rows[each], top.nv, top.hk) THEN top.acc
                   ELSE Keep(top.acc, each) IN
        /\ IF top.hk THEN Did("count", ".icon-finish", "", o, RetNone)
           ELSE IF top.nv THEN Did("text_content", ".progress-num", "", o, RetNone)
           ELSE Did("count", ".time_icofinish", "", o, RetNone)
        /\ IF o # "ok" THEN Propagate(o)
           ELSE IF top.i = Len(AllLocators) THEN Finish(RetList(acc))
           ELSE /\ stack' = <<[top EXCEPT !.i = top.i + 1, !.acc = acc]>> \o Tail(stack)
                /\ UNCHANGED res
    /\ UNCHANGED <<cvars, rows, call, log, hour, allRet>>

(***************************************************************************)
(* Specifications: the cookie file, the course scan over every page of up  *)
(* to MaxRows rows, and all page helpers over one sample page.             *)
(***************************************************************************)
Pages == SeqsUpTo(RowStates, MaxRows)

SamplePage == << [icon |-> 0, progress |-> "99%", timeIco |-> 0],
                 [icon |-> 1, progress |-> "100%", timeIco |-> 1] >>

NextCookies == SaveCookies \/ LoadCookies

InitCookieSpec == InitCookies /\ InitPage({<<>>})

\* the page helpers never touch the cookie files
NoFiles == fs = [f \in Files |-> NoFile]

SpecCookies == InitCookieSpec /\ [][NextCookies]_vars

NextFilter ==
    \/ Call_get_filtered_class
    \/ get_filtered_class_wait_progress
    \/ get_filtered_class_wait_indicator
    \/ get_filtered_class_scan
    \/ get_filtered_class_each

InitFilter == InitCookies /\ NoFiles /\ InitPage(Pages)

SpecFilter == InitFilter /\ [][NextFilter]_vars

NextPage ==
    \/ Call_display_window \/ display_window
    \/ Call_hide_window \/ hide_window
    \/ Call_get_browser_window \/ get_browser_window
    \/ Call_evaluate_js \/ evaluate_js_wait \/ evaluate_js_eval
    \/ Call_evaluate_on_element \/ evaluate_on_element
    \/ Call_optimize_page \/ optimize_page_after_pop \/ optimize_page_tip
    \/ optimize_page_ai \/ optimize_page_msg \/ optimize_page_done
    \/ Call_get_video_attr \/ get_video_attr_wait \/ get_video_attr_eval
    \/ Call_get_lesson_name \/ get_lesson_name_wait \/ get_lesson_name_delay
    \/ get_lesson_name_attr
    \/ NextFilter

InitPageSpec == InitCookies /\ NoFiles /\ InitPage({SamplePage})

SpecPage == InitPageSpec /\ [][NextPage]_vars

\* values json.load itself can produce: lists, string-keyed dicts, atoms
RECURSIVE JsonNative(_)
JsonNative(v) ==
    CASE v.kind \in {"str", "int", "none"} -> TRUE
      [] v.kind = "list" -> \A i \in 1..Len(v.items) : JsonNative(v.items[i])
      [] v.kind = "dict" -> \A i \in 1..Len(v.items) :
                               /\ v.items[i].items[1].kind = "str"
                               /\ JsonNative(v.items[i].items[2])
      [] OTHER -> FALSE

LoadedFile == fs[cstat.file]

\* C7 (as stated): a load that follows a completed save of C to the same file
\* returns a value equal to C, for every collection json.dump accepts
C7_RoundTripAnySerializable ==
    (cstat.op = "load" /\ saved[cstat.file] # NoValue)
        => (cstat.outcome = "returned" /\ cstat.ret = saved[cstat.file])

\* C7 (amended): a load that follows a completed save of C to the same file
\* returns a value equal to C when C is built from lists, string-keyed dicts,
\* strings, numbers and None; the file holds exactly the text of the last save
C7_RoundTripJsonNative ==
    /\ (cstat.op = "load" /\ saved[cstat.file] # NoValue /\ JsonNative(saved[cstat.file]))
          => (cstat.outcome = "returned" /\ cstat.ret = saved[cstat.file])
    /\ \A f \in Files : saved[f] # NoValue => fs[f] = File(Encode(saved[f]))

C7_Witness ==
    /\ cstat.op = "load" /\ cstat.outcome = "returned"
    /\ saved[cstat.file] = PyList(<<PyDict(<<PyPair(PyStr("name"), PyInt("1"))>>)>>)
    /\ cstat.ret = saved[cstat.file]
    /\ \E g \in Files : g # cstat.file /\ fs[g].exists /\ fs[g] # fs[cstat.file]

Ended(fn) == call.fn = fn /\ stack = <<>> /\ res.outcome # "running"
Tried(sel) == \E k \in 1..Len(ops) : ops[k].op = "element.evaluate" /\ ops[k].sel = sel
Failures == {k \in 1..Len(ops) : ops[k].res # "ok"}
PopRuns == {k \in 1..Len(ops) : ops[k].op = "evaluate" /\ ops[k].js = PopJs}
Removals == {".exploreTip", ".ai-helper-Index2", ".aiMsg.once"}

\* C1: no page-driving function lets an exception of a page call reach its
\* caller
C1_NoCallPropagates == res.outcome # "raised"

\* the rows of the page judged unfinished, by the three rules of the claim
Unfinished(nv, hk) ==
    {k \in 1..Len(rows) :
        ~ (IF hk THEN rows[k].icon > 0
           ELSE IF nv THEN rows[k].progress = "100%"
           ELSE rows[k].timeIco > 0)}
Increasing(l) == \A a, b \in 1..Len(l) : a < b => l[a] < l[b]
Elements(l) == {l[k] : k \in 1..Len(l)}

\* C2: a scan with include_all=False that returns, returns exactly the
\* unfinished rows, in page order
C2_FilteredExactlyUnfinished ==
    (Ended("get_filtered_class") /\ ~call.all /\ res.outcome = "returned")
        => /\ res.ret.kind = "list"
           /\ Increasing(res.ret.list)
           /\ Elements(res.ret.list) = Unfinished(call.nv, call.hk)

C2_Witness ==
    /\ Ended("get_filtered_class") /\ ~call.all /\ res.outcome = "returned"
    /\ call.nv /\ ~call.hk
    /\ Len(rows) = 2
    /\ rows[1].progress = "100%" /\ rows[1].timeIco = 0 /\ rows[1].icon = 0
    /\ rows[2].progress = "99%" /\ rows[2].timeIco = 1 /\ rows[2].icon = 1
    /\ res.ret.list = <<2>>

\* a is b with some elements left out
RECURSIVE IsSubseq(_, _)
IsSubseq(a, b) ==
    IF a = <<>> THEN TRUE
    ELSE IF b = <<>> THEN FALSE
    ELSE IF Head(a) = Head(b) THEN IsSubseq(Tail(a), Tail(b))
    ELSE IsSubseq(a, Tail(b))

\* C3: on one page and with the same mode flags, the list of a scan with
\* include_all=False is a subsequence of the list of a scan with
\* include_all=True
C3_FilteredSubseqOfAll ==
    ( /\ Ended("get_filtered_class") /\ ~call.all /\ res.outcome = "returned"
      /\ allRet.valid /\ allRet.nv = call.nv /\ allRet.hk = call.hk )
        => /\ IsSubseq(res.ret.list, allRet.list)
           /\ Len(res.ret.list) <= Len(allRet.list)

C3_Witness ==
    /\ Ended("get_filtered_class") /\ ~call.all /\ res.outcome = "returned"
    /\ allRet.valid /\ allRet.nv = call.nv /\ allRet.hk = call.hk
    /\ Len(allRet.list) = 2 /\ Len(res.ret.list) = 1

\* C4 (as stated): optimize_page tries the pattern-button click exactly when
\* the hour is at least 18 or below 7, and tries the three removals
C4_ClickIffNight ==
    Ended("optimize_page")
        => /\ Tried(".Patternbtn-div") <=> (hour >= 18 \/ hour < 7)
           /\ \A sel \in Removals : Tried(sel)

\* C4 (amended): with neither is_new_version nor is_hike_class set,
\* optimize_page tries the pattern-button click exactly when the hour is at
\* least 18 or below 7 and tries the three removals at every hour; with
\* either flag set it tries neither
C4_ClickIffNightInDefaultMode ==
    Ended("optimize_page")
        => IF ~call.nv /\ ~call.hk
           THEN /\ Tried(".Patternbtn-div") <=> (hour >= 18 \/ hour < 7)
                /\ \A sel \in Removals : Tried(sel)
           ELSE /\ ~Tried(".Patternbtn-div")
                /\ \A sel \in Removals : ~Tried(sel)

C4_Witness ==
    /\ Ended("optimize_page") /\ ~call.nv /\ ~call.hk
    /\ hour = 20 /\ Tried(".Patternbtn-div") /\ \A sel \in Removals : Tried(sel)

\* C5 (as stated): every call of optimize_page runs config.pop_js in the
\* page, before any other step
C5_PopJsAlwaysRuns ==
    Ended("optimize_page")
        => \E k \in PopRuns : \A j \in 1..(k - 1) : ops[j].op = "wait_for_selector"

\* C5 (amended): every call of optimize_page begins with the pop-up step,
\* whatever is_new_version: with is_hike_class unset its first page call is
\* the wait for .studytime-div and config.pop_js runs, next and once, exactly
\* when that wait succeeded; with is_hike_class set it makes no page call
C5_PopJsFirstWhenNotHike ==
    call.fn = "optimize_page"
        => IF call.hk THEN ops = <<>>
           ELSE /\ Len(ops) >= 1 =>
                     /\ ops[1].op = "wait_for_selector"
                     /\ ops[1].sel = ".studytime-div"
                /\ PopRuns \subseteq {2}
                /\ ops # <<>> /\ ops[1].res # "ok" => PopRuns = {}
                /\ (Len(ops) >= 2 \/ Ended("optimize_page")) /\ ops # <<>> /\ ops[1].res = "ok"
                     => PopRuns = {2}
                /\ Ended("optimize_page") => ops # <<>>

C5_Witness ==
    /\ Ended("optimize_page") /\ call.nv /\ ~call.hk
    /\ Len(ops) = 2 /\ PopRuns = {2} /\ ops[2].res = "ok"

PopFailed ==
    \E k \in Failures :
        \/ ops[k].op = "wait_for_selector" /\ ops[k].sel = ".studytime-div"
        \/ k \in PopRuns

\* C6 (as stated): after a failure of the pop-up step, optimize_page tries
\* neither the click nor any of the three removals
C6_PopFailureSkipsRest ==
    (call.fn = "optimize_page" /\ PopFailed)
        => /\ ~Tried(".Patternbtn-div")
           /\ \A sel \in Removals : ~Tried(sel)

\* C6 (amended): a failure of the pop-up step is logged and ends that step
\* alone: with neither is_new_version nor is_hike_class set, optimize_page
\* still tries the three removals, and the click at a night hour
C6_PopFailureKeepsRest ==
    (Ended("optimize_page") /\ PopFailed)
        => /\ res.outcome = "returned"
           /\ Len(log) >= 2 /\ log[1] = "write_log" /\ log[2] = "write_log"
           /\ (~call.nv /\ ~call.hk)
                => /\ \A sel \in Removals : Tried(sel)
                   /\ (hour >= 18 \/ hour < 7) => Tried(".Patternbtn-div")

C6_Witness ==
    /\ Ended("optimize_page") /\ ~call.nv /\ ~call.hk
    /\ ops[1].res = "TimeoutError" /\ hour = 20
    /\ Tried(".Patternbtn-div") /\ \A sel \in Removals : Tried(sel)

\* C9: get_lesson_name never raises; it returns the placeholder when the
\* wait for the title element, the settle delay or the attribute read fails,
\* and otherwise the title read after the wait and the delay, in that order
C9_LessonNameOrPlaceholder ==
    call.fn = "get_lesson_name"
        => /\ res.outcome # "raised"
           /\ Len(ops) <= 3
           /\ Len(ops) >= 1 => ops[1].op = "wait_for_selector"
                               /\ ops[1].sel = (IF call.hk THEN "span" ELSE "#lessonOrder")
           /\ Len(ops) >= 2 => ops[2].op = "wait_for_timeout" /\ ops[1].res = "ok"
           /\ Len(ops) >= 3 => ops[3].op = "get_attribute" /\ ops[2].res = "ok"
           /\ Ended("get_lesson_name")
                => IF Failures # {}
                   THEN res.ret = RetStr(UnknownLesson)
                   ELSE Len(ops) = 3 /\ res.ret = ops[3].val

C9_Witness ==
    /\ Ended("get_lesson_name") /\ call.hk
    /\ Len(ops) = 1 /\ ops[1].res = "TimeoutError"
    /\ res.ret = RetStr(UnknownLesson)

\* C10: evaluate_js, with hike-class mode off and a selector given, runs the
\* script only after the wait succeeded; a failed wait is logged, the script
\* is not run and the call returns; the script runs at most once; with no
\* selector there is no wait
C10_ScriptOnlyAfterWait ==
    call.fn = "evaluate_js"
        => /\ res.outcome # "raised"
           /\ Cardinality(PopRuns) <= 1
           /\ (call.sel # "" /\ ~call.hk)
                => /\ \A k \in PopRuns : k = 2 /\ ops[1].op = "wait_for_selector"
                                         /\ ops[1].sel = call.sel /\ ops[1].res = "ok"
                   /\ (ops # <<>> /\ ops[1].res # "ok")
                        => /\ PopRuns = {} /\ Len(ops) = 1
                           /\ res.outcome = "returned"
                           /\ log # <<>> /\ log[1] = "write_log"
                   /\ Ended("evaluate_js") => ops # <<>>
           /\ call.sel = "" => \A k \in 1..Len(ops) : ops[k].op # "wait_for_selector"
           /\ (call.sel = "" /\ ~call.hk /\ Ended("evaluate_js")) => PopRuns = {1}

C10_Witness ==
    /\ Ended("evaluate_js") /\ call.sel # "" /\ ~call.hk
    /\ Len(ops) = 1 /\ ops[1].res = "TimeoutError" /\ res.outcome = "returned"
    /\ log = <<"write_log", "write_log">>

====
